---- MODULE Spec2Model ----
(***************************************************************************)
(* A model of pyschema's Avro extension (pyschema_extensions/avro.py) and  *)
(* of the luigi batch writer (pyschema/contrib/luigi.py).                  *)
(*                                                                         *)
(* Python values are modelled as one-field records so that values of       *)
(* different Python types can be compared: None, str, int, bool, list,     *)
(* dict and record instances each have their own field name.  A Python     *)
(* dict is a function from its string keys to values, so "key in dict" is  *)
(* "key \in DOMAIN".                                                       *)
(***************************************************************************)
EXTENDS Integers, Sequences, FiniteSets, TLC

VARIABLES
    schemas,        \* the Record classes: record id -> its class attributes
    state,          \* the SchemaGeneratorState the caller holds, or None
    last,           \* the last schema-generation call and what it returned
    field,          \* codec: the Field a value is dumped and loaded with
    value,          \* codec: the value handed to avro_dump
    dumped,         \* codec: what avro_dump returned
    loaded,         \* codec: what avro_load returned for it
    dct,            \* loader: the mapping handed to from_json_compatible
    key_order,      \* the order in which dict iteration visits keys
    load_result,    \* loader: what from_json_compatible returned or raised
    outputs,        \* writer: the records handed to mr_writer
    pos,            \* writer: how many records the for loop has consumed
    output_stream,  \* writer: the lines printed to output_stream
    stderr,         \* writer: the lines printed to stderr
    writer          \* writer: "running", "returned" or the exception raised

vars == <<schemas, state, last, field, value, dumped, loaded, dct, key_order,
          load_result, outputs, pos, output_stream, stderr, writer>>

genVars == <<schemas, state, last>>
codecVars == <<field, value, dumped, loaded>>
loadVars == <<dct, key_order, load_result>>
writerVars == <<outputs, pos, output_stream, stderr, writer>>

(***************************************************************************)
(* Python values                                                           *)
(***************************************************************************)
None == [none |-> TRUE]
NO_DEFAULT == [nodefault |-> TRUE]
Str(s) == [str |-> s]
Num(n) == [int |-> n]
Flt(n) == [float |-> n]
Bool(b) == [bool |-> b]
Raw(b) == [bytes |-> b]
PyList(seq) == [list |-> seq]
Dict(f) == [dict |-> f]

IsStr(v) == DOMAIN v = {"str"}
IsList(v) == DOMAIN v = {"list"}
IsDict(v) == DOMAIN v = {"dict"}

(***************************************************************************)
(* Field kinds (pyschema.types), as the attributes the extension reads     *)
(***************************************************************************)
Boolean(nullable, default) ==
    [kind |-> "Boolean", nullable |-> nullable, default |-> default]
Integer(size, nullable, default) ==
    [kind |-> "Integer", size |-> size, nullable |-> nullable, default |-> default]
Float(size, nullable, default) ==
    [kind |-> "Float", size |-> size, nullable |-> nullable, default |-> default]
Bytes(nullable, default) ==
    [kind |-> "Bytes", nullable |-> nullable, default |-> default]
Text(nullable, default) ==
    [kind |-> "Text", nullable |-> nullable, default |-> default]
Enum(values, nullable, default) ==
    [kind |-> "Enum", values |-> values, nullable |-> nullable, default |-> default]
List(field_type, nullable, default) ==
    [kind |-> "List", field_type |-> field_type, nullable |-> nullable,
     default |-> default]
Map(key_type, value_type, nullable, default) ==
    [kind |-> "Map", key_type |-> key_type, value_type |-> value_type,
     nullable |-> nullable, default |-> default]
SubRecord(schema, nullable, default) ==
    [kind |-> "SubRecord", schema |-> schema, nullable |-> nullable,
     default |-> default]

\* hasattr(record, '_avro_namespace_')
HasNamespace(record) == "avro_namespace" \in DOMAIN schemas[record]

\* the name get_schema_dict declares a record under
RecordName(record) ==
    IF HasNamespace(record)
    THEN schemas[record].avro_namespace \o "." \o schemas[record].schema_name
    ELSE schemas[record].schema_name

\* a mutant of AvroTypeName: every Integer is a long, every Float a double
AvroTypeNameNoSize(f) ==
    CASE f.kind = "Boolean" -> "boolean"
      [] f.kind = "Bytes" -> "bytes"
      [] f.kind = "Text" -> "string"
      [] f.kind = "Enum" -> "ENUM"
      [] f.kind = "List" -> "array"
      [] f.kind = "Map" -> "map"
      [] f.kind = "Float" -> "double"
      [] f.kind = "Integer" -> "long"
      [] f.kind = "SubRecord" -> RecordName(f.schema)

AvroTypeName(f) ==
    CASE f.kind = "Boolean" -> "boolean"
      [] f.kind = "Bytes" -> "bytes"
      [] f.kind = "Text" -> "string"
      [] f.kind = "Enum" -> "ENUM"
      [] f.kind = "List" -> "array"
      [] f.kind = "Map" -> "map"
      [] f.kind = "Float" -> IF f.size <= 4 THEN "float" ELSE "double"
      [] f.kind = "Integer" -> IF f.size <= 4 THEN "int" ELSE "long"
      [] f.kind = "SubRecord" ->
            IF HasNamespace(f.schema)
            THEN schemas[f.schema].avro_namespace \o "." \o
                 schemas[f.schema].schema_name
            ELSE schemas[f.schema].schema_name

(***************************************************************************)
(* Schema generation                                                       *)
(***************************************************************************)
\* The recursion limit of the interpreter, scaled to the model.
MaxDepth == 14

\* SchemaGeneratorState(): declared_records is the object's attribute;
\* expanded is a history of the records this state has been asked to expand,
\* in order, kept for the properties below.
SchemaGeneratorState == [declared_records |-> {}, expanded |-> <<>>]

\* What a call does: returns val, or raises; st is the state object after it.
Return(val, st) == [val |-> val, st |-> st, raised |-> "no"]
Raise(exc, st) == [val |-> None, st |-> st, raised |-> exc]

RECURSIVE GetSchemaDict(_, _, _)
RECURSIVE AvroFields(_, _, _, _, _)
RECURSIVE AvroTypeSchema(_, _, _)
RECURSIVE SimplifiedAvroTypeSchema(_, _, _)

\* a mutant of AvroTypeSchema: the union order is chosen by truthiness
AvroTypeSchemaTruthy(f, st, depth) ==
    LET simple_type == SimplifiedAvroTypeSchema(f, st, depth)
    IN  IF simple_type.raised # "no" THEN simple_type
        ELSE IF f.nullable
        THEN IF f.default \in {None, NO_DEFAULT, Num(0), Bool(FALSE), Str("")}
             THEN Return(PyList(<<Str("null"), simple_type.val>>), simple_type.st)
             ELSE Return(PyList(<<simple_type.val, Str("null")>>), simple_type.st)
        ELSE simple_type

AvroTypeSchema(f, st, depth) ==
    LET simple_type == SimplifiedAvroTypeSchema(f, st, depth)
    IN  IF simple_type.raised # "no" THEN simple_type
        ELSE IF f.nullable
        THEN IF f.default \in {None, NO_DEFAULT}
             THEN Return(PyList(<<Str("null"), simple_type.val>>), simple_type.st)
             ELSE Return(PyList(<<simple_type.val, Str("null")>>), simple_type.st)
        ELSE simple_type

AvroDefaultValue(f) == f.default

\* a mutant of IsText: any string-like key kind passes
IsTextOrBytes(key_type) == key_type.kind \in {"Text", "Bytes"}

\* isinstance(self.key_type, Text)
IsText(key_type) == key_type.kind = "Text"

SimplifiedAvroTypeSchema(f, st, depth) ==
    IF depth = 0 THEN Raise("RecursionLimit", st)
    ELSE CASE f.kind = "List" ->
                LET items == AvroTypeSchema(f.field_type, st, depth - 1)
                IN  IF items.raised # "no" THEN items
                    ELSE Return(Dict([type |-> Str("array"), items |-> items.val]),
                                items.st)
           [] f.kind = "Enum" ->
                Return(Dict([type |-> Str("enum"), name |-> Str(AvroTypeName(f)),
                             symbols |-> PyList(f.values)]), st)
           [] f.kind = "SubRecord" -> GetSchemaDict(f.schema, st, depth - 1)
           [] f.kind = "Map" ->
                IF ~IsText(f.key_type) THEN Raise("AssertionError", st)
                ELSE LET values == AvroTypeSchema(f.value_type, st, depth - 1)
                     IN  IF values.raised # "no" THEN values
                         ELSE Return(Dict([type |-> Str("map"),
                                           values |-> values.val]), values.st)
           [] OTHER -> Return(Str(AvroTypeName(f)), st)

\* a mutant of FieldSpec: the default key is always written
FieldSpecAlways(field_name, field_type, type) ==
    [name |-> Str(field_name), type |-> type,
     default |-> IF field_type.default = NO_DEFAULT THEN None
                 ELSE AvroDefaultValue(field_type)]

\* the body of get_schema_dict's loop once the type is known
FieldSpec(field_name, field_type, type) ==
    IF field_type.default # NO_DEFAULT
    THEN [name |-> Str(field_name), type |-> type,
          default |-> AvroDefaultValue(field_type)]
    ELSE [name |-> Str(field_name), type |-> type]

\* get_schema_dict's loop over record._fields, from the i-th field on
AvroFields(record, i, avro_fields, st, depth) ==
    IF i > Len(schemas[record].fields) THEN Return(PyList(avro_fields), st)
    ELSE LET field_name == schemas[record].fields[i][1]
             field_type == schemas[record].fields[i][2]
             type == AvroTypeSchema(field_type, st, depth)
         IN  IF type.raised # "no" THEN type
             ELSE AvroFields(record, i + 1,
                             Append(avro_fields,
                                    Dict(FieldSpec(field_name, field_type, type.val))),
                             type.st, depth)

\* a mutant of AlreadyDeclared: no record is ever taken as declared
NeverDeclared(record_name, st) == FALSE

\* record_name in state.declared_records
AlreadyDeclared(record_name, st) == record_name \in st.declared_records

\* a mutant of Declare: the name is recorded but the state is left as it was
DeclareNothing(record_name, st) ==
    [st EXCEPT !.expanded = Append(@, record_name)]

\* state.declared_records.add(record_name)
Declare(record_name, st) ==
    [st EXCEPT !.declared_records = @ \cup {record_name},
               !.expanded = Append(@, record_name)]

GetSchemaDict(record, state_arg, depth) ==
    LET st == IF state_arg = None THEN SchemaGeneratorState ELSE state_arg
        record_name == RecordName(record)
    IN  IF depth = 0 THEN Raise("RecursionLimit", st)
        ELSE IF AlreadyDeclared(record_name, st) THEN Return(Str(record_name), st)
        ELSE LET avro_record ==
                     IF HasNamespace(record) /\ schemas[record].avro_namespace # ""
                     THEN [type |-> Str("record"),
                           name |-> Str(schemas[record].schema_name),
                           namespace |-> Str(schemas[record].avro_namespace)]
                     ELSE [type |-> Str("record"),
                           name |-> Str(schemas[record].schema_name)]
                 avro_fields == AvroFields(record, 1, <<>>,
                                           Declare(record_name, st), depth - 1)
             IN  IF avro_fields.raised # "no" THEN avro_fields
                 ELSE Return(Dict(avro_record @@ [fields |-> avro_fields.val]),
                             avro_fields.st)

(***************************************************************************)
(* The record classes schema generation is run on.  Three classes A, B, C  *)
(* with distinct qualified names (the data model's invariant); A's and B's *)
(* fields range over scalars with every nullable/default combination,      *)
(* SubRecords of each other, of themselves and of C, containers of those,  *)
(* and Maps whose key is not Text.                                         *)
(***************************************************************************)
RecIds == {"A", "B", "C"}

BadMap == Map(Integer(8, FALSE, NO_DEFAULT), Text(FALSE, NO_DEFAULT), FALSE, NO_DEFAULT)
TextKey == Text(FALSE, NO_DEFAULT)

Scalars ==
    { Integer(8, FALSE, NO_DEFAULT), Integer(4, TRUE, Num(0)),
      Integer(8, TRUE, Num(7)), Text(TRUE, None), Text(FALSE, Str("")),
      Boolean(TRUE, Bool(FALSE)), Boolean(TRUE, NO_DEFAULT),
      Float(8, FALSE, None), Bytes(TRUE, NO_DEFAULT),
      Enum(<<Str("x"), Str("y")>>, TRUE, Str("x")) }

FirstOfA ==
    { SubRecord("A", TRUE, None), SubRecord("B", FALSE, NO_DEFAULT),
      List(SubRecord("B", FALSE, NO_DEFAULT), FALSE, NO_DEFAULT),
      Map(TextKey, SubRecord("A", TRUE, NO_DEFAULT), TRUE, None) }

SecondOfA ==
    { SubRecord("B", TRUE, None), SubRecord("C", FALSE, NO_DEFAULT),
      BadMap, List(BadMap, FALSE, NO_DEFAULT),
      Map(TextKey, BadMap, TRUE, NO_DEFAULT) }

OnlyOfB ==
    { SubRecord("A", FALSE, NO_DEFAULT), SubRecord("C", TRUE, None),
      List(SubRecord("B", TRUE, NO_DEFAULT), TRUE, PyList(<<>>)),
      Map(TextKey, List(SubRecord("C", FALSE, NO_DEFAULT), FALSE, NO_DEFAULT),
          FALSE, NO_DEFAULT),
      BadMap }

OnlyOfC ==
    { Text(TRUE, None), SubRecord("A", TRUE, None),
      Map(Bytes(FALSE, NO_DEFAULT), SubRecord("C", FALSE, NO_DEFAULT), TRUE, None) }

Classes(f, g, h, k) ==
    [A |-> [schema_name |-> "A", avro_namespace |-> "com",
            fields |-> << <<"f1", f>>, <<"f2", g>> >>],
     B |-> [schema_name |-> "B", fields |-> << <<"f1", h>> >>],
     C |-> [schema_name |-> "C", avro_namespace |-> "org",
            fields |-> << <<"f1", k>> >>]]

GenSchemas ==
    { Classes(f, g, h, k) :
        f \in FirstOfA, g \in SecondOfA, h \in OnlyOfB, k \in OnlyOfC }
    \cup
    { Classes(SubRecord("B", FALSE, NO_DEFAULT), g, Text(FALSE, NO_DEFAULT),
              Text(TRUE, None)) : g \in Scalars }

\* the codec's, the loader's and the writer's variables while unused
NoCall == [op |-> "none", record |-> "A", field |-> None, supplied |-> FALSE,
           pre |-> SchemaGeneratorState, res |-> Return(None, SchemaGeneratorState)]
CodecIdle == /\ field = None /\ value = None /\ dumped = None /\ loaded = None
LoadIdle == /\ dct = None /\ key_order = <<>> /\ load_result = None
WriterIdle == /\ outputs = <<>> /\ pos = 0 /\ output_stream = <<>>
              /\ stderr = <<>> /\ writer = "idle"
GenIdle == /\ state = None /\ last = NoCall

GenInit ==
    /\ schemas \in GenSchemas
    /\ GenIdle /\ CodecIdle /\ LoadIdle /\ WriterIdle

\* the caller constructs a SchemaGeneratorState to share between calls
NewState ==
    /\ state' = SchemaGeneratorState
    /\ last' = [NoCall EXCEPT !.op = "SchemaGeneratorState"]
    /\ UNCHANGED <<schemas, codecVars, loadVars, writerVars>>

\* get_schema_dict(record) or get_schema_dict(record, state)
GetSchemaDictCall ==
    \E record \in RecIds, supplied \in BOOLEAN :
        /\ supplied => state # None
        /\ LET res == GetSchemaDict(record, IF supplied THEN state ELSE None,
                                    MaxDepth)
           IN  /\ state' = IF supplied THEN res.st ELSE state
               /\ last' = [op |-> "get_schema_dict", record |-> record,
                           field |-> None, supplied |-> supplied,
                           pre |-> IF supplied THEN state ELSE SchemaGeneratorState,
                           res |-> res]
        /\ UNCHANGED <<schemas, codecVars, loadVars, writerVars>>

\* field.avro_type_schema(state) on a field of one of the classes
AvroTypeSchemaCall ==
    \E record \in RecIds :
      \E i \in 1..Len(schemas[record].fields) :
        /\ state # None
        /\ LET res == AvroTypeSchema(schemas[record].fields[i][2], state, MaxDepth)
           IN  /\ state' = res.st
               /\ last' = [op |-> "avro_type_schema", record |-> record,
                           field |-> schemas[record].fields[i][2],
                           supplied |-> TRUE, pre |-> state, res |-> res]
        /\ UNCHANGED <<schemas, codecVars, loadVars, writerVars>>

\* field.simplified_avro_type_schema(state) on a field of one of the classes
SimplifiedAvroTypeSchemaCall ==
    \E record \in RecIds :
      \E i \in 1..Len(schemas[record].fields) :
        /\ state # None
        /\ LET res == SimplifiedAvroTypeSchema(schemas[record].fields[i][2],
                                               state, MaxDepth)
           IN  /\ state' = res.st
               /\ last' = [op |-> "simplified_avro_type_schema", record |-> record,
                           field |-> schemas[record].fields[i][2],
                           supplied |-> TRUE, pre |-> state, res |-> res]
        /\ UNCHANGED <<schemas, codecVars, loadVars, writerVars>>

\* field.avro_type_name on a field of one of the classes
AvroTypeNameCall ==
    \E record \in RecIds :
      \E i \in 1..Len(schemas[record].fields) :
        /\ state # None
        /\ last' = [op |-> "avro_type_name", record |-> record,
                    field |-> schemas[record].fields[i][2],
                    supplied |-> TRUE, pre |-> state,
                    res |-> Return(Str(AvroTypeName(schemas[record].fields[i][2])),
                                   state)]
        /\ UNCHANGED <<schemas, state, codecVars, loadVars, writerVars>>

GenNext ==
    \/ NewState
    \/ GetSchemaDictCall
    \/ AvroTypeSchemaCall
    \/ SimplifiedAvroTypeSchemaCall
    \/ AvroTypeNameCall

GenSpec == GenInit /\ [][GenNext]_vars

(***************************************************************************)
(* What the class definitions say, computed from the classes alone         *)
(***************************************************************************)
RECURSIVE RefCount(_, _)
\* how many times field type f refers to class r as a SubRecord
RefCount(f, r) ==
    CASE f.kind = "SubRecord" -> IF f.schema = r THEN 1 ELSE 0
      [] f.kind = "List" -> RefCount(f.field_type, r)
      [] f.kind = "Map" -> RefCount(f.value_type, r)
      [] OTHER -> 0

RECURSIVE HasBadMap(_)
\* field type f holds a Map whose key kind is not Text
HasBadMap(f) ==
    CASE f.kind = "Map" -> f.key_type.kind # "Text" \/ HasBadMap(f.value_type)
      [] f.kind = "List" -> HasBadMap(f.field_type)
      [] OTHER -> FALSE

FieldTypes(r) == { schemas[r].fields[i][2] : i \in 1..Len(schemas[r].fields) }
RecordHasBadMap(r) == \E f \in FieldTypes(r) : HasBadMap(f)
Refers(s, r) == \E f \in FieldTypes(s) : RefCount(f, r) > 0

RECURSIVE Closure(_, _)
\* S and every class reached from it through classes not named in declared
Closure(S, declared) ==
    LET more == S \cup { r \in RecIds : /\ RecordName(r) \notin declared
                                        /\ \E s \in S : Refers(s, r) }
    IN  IF more = S THEN S ELSE Closure(more, declared)

\* the classes a pass from top expands when the state starts with declared
Reached(top, declared) ==
    IF RecordName(top) \in declared THEN {} ELSE Closure({top}, declared)

\* the classes a pass over field type f expands
ReachedFromField(f, declared) ==
    Closure({ r \in RecIds : RefCount(f, r) > 0 /\ RecordName(r) \notin declared },
            declared)

RECURSIVE SumRefs(_, _, _)
\* references to class r in fields i.. of class s
SumRefs(s, i, r) ==
    IF i > Len(schemas[s].fields) THEN 0
    ELSE RefCount(schemas[s].fields[i][2], r) + SumRefs(s, i + 1, r)

RECURSIVE TotalRefs(_, _)
\* references to class r in the fields of the classes in S
TotalRefs(S, r) ==
    IF S = {} THEN 0
    ELSE LET s == CHOOSE x \in S : TRUE
         IN  SumRefs(s, 1, r) + TotalRefs(S \ {s}, r)

(***************************************************************************)
(* What a schema document says                                             *)
(***************************************************************************)
\* the qualified name a full record definition carries
DocName(d) ==
    IF "namespace" \in DOMAIN d THEN d.namespace.str \o "." \o d.name.str
    ELSE d.name.str

FieldTypeDocs(d) == [i \in 1..Len(d.fields.list) |-> d.fields.list[i].dict.type]

RECURSIVE Count(_, _, _)
RECURSIVE CountSeq(_, _, _)
\* in type document t: the full definitions of q (what = "def") or the bare
\* name strings q (what = "ref")
Count(t, q, what) ==
    IF IsStr(t) THEN IF what = "ref" /\ t = Str(q) THEN 1 ELSE 0
    ELSE IF IsList(t) THEN CountSeq(t.list, q, what)
    ELSE IF IsDict(t)
    THEN CASE t.dict.type = Str("record") ->
                (IF what = "def" /\ DocName(t.dict) = q THEN 1 ELSE 0)
                + CountSeq(FieldTypeDocs(t.dict), q, what)
           [] t.dict.type = Str("array") -> Count(t.dict.items, q, what)
           [] t.dict.type = Str("map") -> Count(t.dict.values, q, what)
           [] OTHER -> 0
    ELSE 0

CountSeq(seq, q, what) ==
    IF seq = <<>> THEN 0
    ELSE Count(Head(seq), q, what) + CountSeq(Tail(seq), q, what)

RECURSIVE Definitions(_)
\* every full record definition in type document t
Definitions(t) ==
    IF IsList(t) THEN UNION { Definitions(t.list[i]) : i \in 1..Len(t.list) }
    ELSE IF IsDict(t)
    THEN CASE t.dict.type = Str("record") ->
                {t.dict} \cup UNION { Definitions(FieldTypeDocs(t.dict)[i]) :
                                        i \in 1..Len(t.dict.fields.list) }
           [] t.dict.type = Str("array") -> Definitions(t.dict.items)
           [] t.dict.type = Str("map") -> Definitions(t.dict.values)
           [] OTHER -> {}
    ELSE {}

ClassNamed(q) == CHOOSE r \in RecIds : RecordName(r) = q
NoRepeats(seq) == \A i, j \in 1..Len(seq) : seq[i] = seq[j] => i = j

Generated == last.op = "get_schema_dict" /\ last.res.raised = "no"

(***************************************************************************)
(* C1: in the document one get_schema_dict pass returns, every qualified   *)
(* record name the pass reaches has exactly one full definition and every  *)
(* other reference to it is the bare name string; a name the state already *)
(* held when the pass started has no definition, only bare references.     *)
(***************************************************************************)
OneDefinitionPerName ==
    Generated =>
        LET reached == Reached(last.record, last.pre.declared_records)
        IN  \A r \in RecIds :
              /\ Count(last.res.val, RecordName(r), "def")
                    = IF r \in reached THEN 1 ELSE 0
              /\ Count(last.res.val, RecordName(r), "def")
                 + Count(last.res.val, RecordName(r), "ref")
                    = TotalRefs(reached, r) + IF r = last.record THEN 1 ELSE 0

\* a fresh pass over mutually recursive classes: A defined once and referred
\* to by name, B defined once
OneDefinitionPerNameWitness ==
    /\ Generated /\ ~last.supplied /\ last.record = "A"
    /\ Count(last.res.val, "com.A", "def") = 1
    /\ Count(last.res.val, "com.A", "ref") >= 1
    /\ Count(last.res.val, "B", "def") = 1
    /\ Count(last.res.val, "B", "ref") >= 1

(***************************************************************************)
(* C2: get_schema_dict terminates: no call runs into the recursion limit,  *)
(* no qualified name is expanded twice under one state, and so a pass      *)
(* expands at most as many records as there are qualified names.           *)
(***************************************************************************)
ExpansionsBounded ==
    /\ last.res.raised # "RecursionLimit"
    /\ NoRepeats(last.res.st.expanded)
    /\ Len(last.res.st.expanded) <= Cardinality({ RecordName(r) : r \in RecIds })
    /\ state # None => NoRepeats(state.expanded)

\* a pass over a cycle A -> B -> C -> A that goes through a List or a Map
\* expands each of the three once and returns
ExpansionsBoundedWitness ==
    /\ Generated /\ last.record = "A"
    /\ schemas["A"].fields[1][2].kind \in {"List", "Map"}
    /\ last.pre.declared_records = {}
    /\ Len(last.res.st.expanded) = 3
    /\ Refers("A", "B") /\ Refers("B", "C") /\ Refers("C", "A")

(***************************************************************************)
(* C4 as stated: generating a schema for a record from which a Map with a  *)
(* non-Text key is reachable fails, whatever Generation State is supplied. *)
(***************************************************************************)
BadMapReachable(top) == \E r \in Closure({top}, {}) : RecordHasBadMap(r)

BadMapKeyAlwaysFails ==
    (last.op = "get_schema_dict" /\ BadMapReachable(last.record))
        => (last.res.raised = "AssertionError" /\ last.res.val = None)

(***************************************************************************)
(* C4 amended: the generation fails, and returns no document, exactly      *)
(* when the pass reaches a record holding such a Map: the top-level record *)
(* and the records on some SubRecord path to it are not yet declared in    *)
(* the state the call starts with.  With a fresh state that is every       *)
(* record from which the Map is reachable.                                 *)
(***************************************************************************)
BadMapKeyFailsWhenReached ==
    last.op = "get_schema_dict" =>
        /\ last.res.raised = "AssertionError"
              <=> \E r \in Reached(last.record, last.pre.declared_records) :
                     RecordHasBadMap(r)
        /\ last.res.raised # "no" => last.res.val = None
        /\ ~last.supplied /\ BadMapReachable(last.record)
              => last.res.raised = "AssertionError"

\* a call with a caller-supplied state that already declares a record fails
\* on a Map nested in another record
BadMapKeyWitness ==
    /\ last.op = "get_schema_dict" /\ last.supplied
    /\ last.pre.declared_records # {}
    /\ last.res.raised = "AssertionError"
    /\ ~RecordHasBadMap(last.record)

(***************************************************************************)
(* C7: avro_type_schema of a nullable field is ["null", X] when the        *)
(* default is None or absent and [X, "null"] for any other default, falsy  *)
(* ones included; of a non-nullable field it is X, the simplified type.    *)
(***************************************************************************)
TypeSchemaCalled == last.op = "avro_type_schema" /\ last.res.raised = "no"

NullableUnionOrder ==
    TypeSchemaCalled =>
        LET X == SimplifiedAvroTypeSchema(last.field, last.pre, MaxDepth).val
        IN  /\ (last.field.nullable /\ last.field.default = None)
                 => last.res.val = PyList(<<Str("null"), X>>)
            /\ (last.field.nullable /\ last.field.default = NO_DEFAULT)
                 => last.res.val = PyList(<<Str("null"), X>>)
            /\ (last.field.nullable /\ last.field.default \notin {None, NO_DEFAULT})
                 => last.res.val = PyList(<<X, Str("null")>>)
            /\ ~last.field.nullable => last.res.val = X

\* a nullable Integer(4) whose default is 0
NullableUnionOrderWitness ==
    /\ TypeSchemaCalled
    /\ last.field = Integer(4, TRUE, Num(0))
    /\ last.res.val = PyList(<<Str("int"), Str("null")>>)

(***************************************************************************)
(* C8: in every full record definition get_schema_dict emits, a field      *)
(* entry has a default key iff the field declares a default, and a         *)
(* declared default of None is written as null.                            *)
(***************************************************************************)
DefaultKeyIffDeclared ==
    Generated =>
        \A d \in Definitions(last.res.val) :
            LET declared == schemas[ClassNamed(DocName(d))].fields
            IN  /\ Len(d.fields.list) = Len(declared)
                /\ \A i \in 1..Len(declared) :
                     LET entry == d.fields.list[i].dict
                     IN  /\ entry.name = Str(declared[i][1])
                         /\ "default" \in DOMAIN entry
                              <=> declared[i][2].default # NO_DEFAULT
                         /\ declared[i][2].default # NO_DEFAULT
                              => entry.default = declared[i][2].default

\* a definition with one field whose default is None and one with no default
DefaultKeyIffDeclaredWitness ==
    /\ Generated
    /\ \E d \in Definitions(last.res.val) :
         \E i, j \in 1..Len(d.fields.list) :
            /\ "default" \in DOMAIN d.fields.list[i].dict
            /\ d.fields.list[i].dict.default = None
            /\ "default" \notin DOMAIN d.fields.list[j].dict

(***************************************************************************)
(* C9 as stated: avro_type_name and simplified_avro_type_schema(state)     *)
(* leave the state's set of declared record names as it was.               *)
(***************************************************************************)
TypeSchemaOnlyReadsState ==
    last.op \in {"avro_type_name", "simplified_avro_type_schema"}
        => last.res.st.declared_records = last.pre.declared_records

(***************************************************************************)
(* C9 amended: avro_type_name never changes the declared set;              *)
(* simplified_avro_type_schema(state) never removes a name, leaves the set *)
(* as it was for a field that holds no SubRecord, and for a SubRecord (or  *)
(* a List or Map of one) adds the qualified name of every record it        *)
(* expands.                                                                *)
(***************************************************************************)
TypeSchemaOnlyAddsExpanded ==
    /\ last.op = "avro_type_name"
          => last.res.st.declared_records = last.pre.declared_records
    /\ last.op = "simplified_avro_type_schema" =>
          LET before == last.pre.declared_records
              after == last.res.st.declared_records
              expanded == { RecordName(r) :
                              r \in ReachedFromField(last.field, before) }
          IN  /\ before \subseteq after
              /\ after \subseteq before \cup expanded
              /\ last.res.raised = "no" => after = before \cup expanded
              /\ (\A r \in RecIds : RefCount(last.field, r) = 0) => after = before

\* simplified_avro_type_schema of a SubRecord declared a record
TypeSchemaOnlyAddsExpandedWitness ==
    /\ last.op = "simplified_avro_type_schema"
    /\ last.field.kind = "SubRecord"
    /\ last.res.raised = "no"
    /\ last.res.st.declared_records # last.pre.declared_records

(***************************************************************************)
(* Value codec                                                             *)
(***************************************************************************)
\* an exception raised instead of a value returned
Exc(type, message) == [exc |-> type, message |-> message]
IsExc(v) == "exc" \in DOMAIN v
\* a variable no call has set yet
NotYet == [pending |-> TRUE]

\* a record instance: its class and its attributes
Instance(schema, attrs) == [rec |-> schema, attrs |-> attrs]

\* field.dump(o) of the scalar kinds: Bytes are written as text, the other
\* kinds as they are
Dump(f, o) == IF f.kind = "Bytes" THEN Str(o.bytes) ELSE o

\* field.load(o) of the scalar kinds
Load(f, o) == IF f.kind = "Bytes" THEN Raw(o.str) ELSE o

\* o[key]
Subscript(o, key) ==
    IF IsDict(o)
    THEN IF key \in DOMAIN o.dict THEN o.dict[key] ELSE Exc("KeyError", <<key>>)
    ELSE Exc("TypeError", <<>>)

\* the keys of a dict in the order iteration visits them
Keys(d) == SelectSeq(key_order, LAMBDA k : k \in DOMAIN d)

\* the first exception among the items of a comprehension, if any
FirstExc(items) ==
    LET bad == { i \in 1..Len(items) : IsExc(items[i]) }
    IN  IF bad = {} THEN None
        ELSE items[CHOOSE i \in bad : \A j \in bad : i <= j]

RECURSIVE AvroDump(_, _)
RECURSIVE AvroLoad(_, _)
RECURSIVE ToJsonCompatible(_)
RECURSIVE FromJsonCompatible(_, _)
RECURSIVE FromJsonKeys(_, _, _, _)

\* FieldMixin.avro_dump
FieldAvroDump(f, o) ==
    IF o = None THEN None
    ELSE IF f.nullable THEN Dict(AvroTypeName(f) :> Dump(f, o))
    ELSE Dump(f, o)

\* FieldMixin.avro_load
FieldAvroLoad(f, o) ==
    IF o = None THEN None
    ELSE IF f.nullable
    THEN LET inner == Subscript(o, AvroTypeName(f))
         IN  IF IsExc(inner) THEN inner ELSE Load(f, inner)
    ELSE Load(f, o)

\* ListMixin.avro_dump
ListAvroDump(f, obj) ==
    IF obj = None THEN None
    ELSE LET l == PyList([i \in 1..Len(obj.list) |->
                            AvroDump(f.field_type, obj.list[i])])
         IN  IF f.nullable THEN Dict(AvroTypeName(f) :> l) ELSE l

\* a mutant of ListAvroLoad: an empty list is taken for no value
ListAvroLoadFalsy(f, obj) ==
    IF obj = None THEN None
    ELSE LET inner == IF f.nullable THEN Subscript(obj, AvroTypeName(f)) ELSE obj
         IN  IF IsExc(inner) THEN inner
             ELSE IF ~IsList(inner) THEN Exc("TypeError", <<>>)
             ELSE IF inner.list = <<>> THEN None
             ELSE LET items == [i \in 1..Len(inner.list) |->
                                  AvroLoad(f.field_type, inner.list[i])]
                  IN  IF FirstExc(items) # None THEN FirstExc(items)
                      ELSE PyList(items)

\* ListMixin.avro_load
ListAvroLoad(f, obj) ==
    IF obj = None THEN None
    ELSE LET inner == IF f.nullable THEN Subscript(obj, AvroTypeName(f)) ELSE obj
         IN  IF IsExc(inner) THEN inner
             ELSE IF ~IsList(inner) THEN Exc("TypeError", <<>>)
             ELSE LET items == [i \in 1..Len(inner.list) |->
                                  AvroLoad(f.field_type, inner.list[i])]
                  IN  IF FirstExc(items) # None THEN FirstExc(items)
                      ELSE PyList(items)

\* SubRecordMixin.avro_dump
SubRecordAvroDump(f, obj) ==
    IF obj = None THEN None
    ELSE IF f.nullable THEN Dict(AvroTypeName(f) :> ToJsonCompatible(obj))
    ELSE ToJsonCompatible(obj)

\* SubRecordMixin.avro_load
SubRecordAvroLoad(f, obj) ==
    IF obj = None THEN None
    ELSE IF f.nullable
    THEN LET inner == Subscript(obj, AvroTypeName(f))
         IN  IF IsExc(inner) THEN inner ELSE FromJsonCompatible(f.schema, inner)
    ELSE FromJsonCompatible(f.schema, obj)

\* MapMixin.avro_dump; the keys of a map are text, which key_type.dump
\* leaves as it is
MapAvroDump(f, obj) ==
    IF obj = None THEN None
    ELSE LET m == Dict([k \in DOMAIN obj.dict |->
                          AvroDump(f.value_type, obj.dict[k])])
         IN  IF f.nullable THEN Dict(AvroTypeName(f) :> m) ELSE m

\* MapMixin.avro_load
MapAvroLoad(f, obj) ==
    IF obj = None THEN None
    ELSE LET inner == IF f.nullable THEN Subscript(obj, AvroTypeName(f)) ELSE obj
         IN  IF IsExc(inner) THEN inner
             ELSE IF ~IsDict(inner) THEN Exc("AttributeError", <<>>)
             ELSE LET keys == Keys(inner.dict)
                      items == [i \in 1..Len(keys) |->
                                  AvroLoad(f.value_type, inner.dict[keys[i]])]
                  IN  IF FirstExc(items) # None THEN FirstExc(items)
                      ELSE Dict([k \in DOMAIN inner.dict |->
                                   AvroLoad(f.value_type, inner.dict[k])])

\* field.avro_dump(o): the method of the field's kind
AvroDump(f, o) ==
    CASE f.kind = "List" -> ListAvroDump(f, o)
      [] f.kind = "Map" -> MapAvroDump(f, o)
      [] f.kind = "SubRecord" -> SubRecordAvroDump(f, o)
      [] OTHER -> FieldAvroDump(f, o)

\* field.avro_load(o): the method of the field's kind
AvroLoad(f, o) ==
    CASE f.kind = "List" -> ListAvroLoad(f, o)
      [] f.kind = "Map" -> MapAvroLoad(f, o)
      [] f.kind = "SubRecord" -> SubRecordAvroLoad(f, o)
      [] OTHER -> FieldAvroLoad(f, o)

\* record._fields as a mapping, and the names in it
FieldNames(schema) ==
    { schemas[schema].fields[i][1] : i \in 1..Len(schemas[schema].fields) }
FieldNamed(schema, name) ==
    LET i == CHOOSE j \in 1..Len(schemas[schema].fields) :
                 schemas[schema].fields[j][1] = name
    IN  schemas[schema].fields[i][2]

ToJsonCompatible(record) ==
    Dict([name \in FieldNames(record.rec) |->
            AvroDump(FieldNamed(record.rec, name), record.attrs[name])])

\* schema(**kwargs): a field without a keyword argument gets its default
Construct(schema, kwargs) ==
    Instance(schema,
             [name \in FieldNames(schema) |->
                IF name \in DOMAIN kwargs THEN kwargs[name]
                ELSE IF FieldNamed(schema, name).default = NO_DEFAULT THEN None
                ELSE FieldNamed(schema, name).default])

\* a mutant of UnknownField: an unknown key is skipped
UnknownFieldSkipped(schema, dict, keys, kwargs) ==
    FromJsonKeys(schema, dict, Tail(keys), kwargs)

\* field_type is None: raise core.ParseError(...  % (schema.__name__, key))
UnknownField(schema, dict, keys, kwargs) ==
    Exc("ParseError", <<schemas[schema].class_name, Head(keys)>>)

\* from_json_compatible's loop over the keys still to visit
FromJsonKeys(schema, dict, keys, kwargs) ==
    IF keys = <<>> THEN Construct(schema, kwargs)
    ELSE LET key == Head(keys)
         IN  IF key \notin FieldNames(schema)
             THEN UnknownField(schema, dict, keys, kwargs)
             ELSE LET v == AvroLoad(FieldNamed(schema, key), dict[key])
                  IN  IF IsExc(v) THEN v
                      ELSE FromJsonKeys(schema, dict, Tail(keys),
                                        (key :> v) @@ kwargs)

FromJsonCompatible(schema, d) ==
    IF ~IsDict(d) THEN Exc("TypeError", <<>>)
    ELSE FromJsonKeys(schema, d.dict, Keys(d.dict), <<>>)

(***************************************************************************)
(* The fields and values the codec is run on: every scalar kind, Enum,     *)
(* Lists and Maps of scalars, of SubRecords and of Lists, and SubRecords   *)
(* of a class with and one without a namespace, each nullable and not.     *)
(***************************************************************************)
\* the longest list handed to the codec
MaxLen == 2

MapKeys == {"k1", "k2"}

CodecSchemas ==
    [Inner |-> [schema_name |-> "Inner", class_name |-> "InnerRecord",
                avro_namespace |-> "com",
                fields |-> << <<"a", Integer(8, TRUE, None)>>,
                              <<"b", Text(FALSE, NO_DEFAULT)>> >>],
     Outer |-> [schema_name |-> "Outer", class_name |-> "Outer",
                fields |-> << <<"inner", SubRecord("Inner", TRUE, None)>>,
                              <<"items", List(Integer(4, FALSE, NO_DEFAULT),
                                              FALSE, NO_DEFAULT)>> >>],
     Rec |-> [schema_name |-> "Rec", class_name |-> "RecClass",
              fields |-> << <<"foo", Text(FALSE, NO_DEFAULT)>>,
                            <<"opt", Integer(8, TRUE, None)>>,
                            <<"sub", SubRecord("Inner", TRUE, None)>> >>]]

\* every key a dict of the model can hold, in two iteration orders
KeyOrders ==
    { <<"a", "b", "inner", "items", "k1", "k2">>,
      <<"k2", "k1", "items", "inner", "b", "a">> }

ScalarFields ==
    { Boolean(n, NO_DEFAULT) : n \in BOOLEAN }
    \cup { Integer(sz, n, NO_DEFAULT) : sz \in {4, 8}, n \in BOOLEAN }
    \cup { Float(sz, n, NO_DEFAULT) : sz \in {4, 8}, n \in BOOLEAN }
    \cup { Bytes(n, NO_DEFAULT) : n \in BOOLEAN }
    \cup { Text(n, NO_DEFAULT) : n \in BOOLEAN }
    \cup { Enum(<<Str("x"), Str("y")>>, n, NO_DEFAULT) : n \in BOOLEAN }

ElementFields ==
    { Integer(8, TRUE, NO_DEFAULT), Bytes(FALSE, NO_DEFAULT),
      SubRecord("Inner", TRUE, NO_DEFAULT), SubRecord("Inner", FALSE, NO_DEFAULT),
      List(Text(FALSE, NO_DEFAULT), FALSE, NO_DEFAULT),
      Map(TextKey, Integer(4, TRUE, NO_DEFAULT), TRUE, NO_DEFAULT) }

CodecFields ==
    ScalarFields
    \cup { List(e, n, NO_DEFAULT) : e \in ElementFields, n \in BOOLEAN }
    \cup { Map(TextKey, e, n, NO_DEFAULT) : e \in ElementFields, n \in BOOLEAN }
    \cup { SubRecord(r, n, NO_DEFAULT) : r \in {"Inner", "Outer"}, n \in BOOLEAN }

BoundedSeq(S, n) == UNION { [1..k -> S] : k \in 0..n }

RECURSIVE ValidValues(_)
RECURSIVE NonNullValues(_)
\* the values a field accepts: None only when it is nullable
ValidValues(f) == IF f.nullable THEN NonNullValues(f) \cup {None} ELSE NonNullValues(f)

NonNullValues(f) ==
    CASE f.kind = "Boolean" -> {Bool(TRUE), Bool(FALSE)}
      [] f.kind = "Integer" -> {Num(0), Num(7)}
      [] f.kind = "Float" -> {Flt(0), Flt(2)}
      [] f.kind = "Bytes" -> {Raw(""), Raw("ab")}
      [] f.kind = "Text" -> {Str(""), Str("x")}
      [] f.kind = "Enum" -> { f.values[i] : i \in 1..Len(f.values) }
      [] f.kind = "List" ->
            { PyList(l) : l \in BoundedSeq(ValidValues(f.field_type), MaxLen) }
      [] f.kind = "Map" ->
            { Dict(m) : m \in UNION { [K -> ValidValues(f.value_type)] :
                                        K \in SUBSET MapKeys } }
      [] f.kind = "SubRecord" ->
            LET fs == CodecSchemas[f.schema].fields
                names == { fs[j][1] : j \in 1..Len(fs) }
                type(name) == fs[CHOOSE j \in 1..Len(fs) : fs[j][1] = name][2]
                all == UNION { ValidValues(fs[j][2]) : j \in 1..Len(fs) }
            IN  { Instance(f.schema, attrs) :
                    attrs \in { a \in [names -> all] :
                                  \A name \in names : a[name] \in ValidValues(type(name)) } }

CodecInit ==
    /\ schemas = CodecSchemas
    /\ key_order \in KeyOrders
    /\ field \in CodecFields
    /\ value \in NonNullValues(field) \cup {None}
    /\ dumped = NotYet /\ loaded = NotYet
    /\ GenIdle /\ WriterIdle
    /\ dct = None /\ load_result = None

\* field.avro_dump(value)
AvroDumpCall ==
    /\ dumped = NotYet
    /\ dumped' = AvroDump(field, value)
    /\ UNCHANGED <<field, value, loaded, genVars, loadVars, writerVars>>

\* field.avro_load(dumped)
AvroLoadCall ==
    /\ dumped # NotYet /\ loaded = NotYet
    /\ loaded' = AvroLoad(field, dumped)
    /\ UNCHANGED <<field, value, dumped, genVars, loadVars, writerVars>>

CodecNext == AvroDumpCall \/ AvroLoadCall

CodecSpec == CodecInit /\ [][CodecNext]_vars

(***************************************************************************)
(* C3: avro_load(avro_dump(v)) = v for every field kind, nullable or not,  *)
(* and every valid v, None included; an empty list or map comes back       *)
(* empty, not as None.                                                     *)
(***************************************************************************)
RoundTrip == loaded # NotYet => loaded = value

\* an empty list of a nullable List field came back as an empty list
RoundTripWitness ==
    /\ loaded # NotYet
    /\ field.kind = "List" /\ field.nullable
    /\ value = PyList(<<>>)
    /\ dumped = Dict("array" :> PyList(<<>>))
    /\ loaded = PyList(<<>>)

(***************************************************************************)
(* C10: avro_dump gives null for None; for a nullable field the one-key    *)
(* mapping {tag: encoded} with the tag of the field's kind, wrapped once   *)
(* around the whole list, map or record; for a non-nullable field the bare *)
(* encoded value.                                                          *)
(***************************************************************************)
\* the tag the claim gives each kind
ClaimedTag(f) ==
    CASE f.kind = "Boolean" -> "boolean"
      [] f.kind = "Bytes" -> "bytes"
      [] f.kind = "Text" -> "string"
      [] f.kind = "Integer" /\ f.size <= 4 -> "int"
      [] f.kind = "Integer" /\ f.size > 4 -> "long"
      [] f.kind = "Float" /\ f.size <= 4 -> "float"
      [] f.kind = "Float" /\ f.size > 4 -> "double"
      [] f.kind = "Enum" -> "ENUM"
      [] f.kind = "List" -> "array"
      [] f.kind = "Map" -> "map"
      [] f.kind = "SubRecord" /\ f.schema = "Inner" -> "com.Inner"
      [] f.kind = "SubRecord" /\ f.schema = "Outer" -> "Outer"

\* the encoding of a non-null value without any wrapping of its own
BareEncoded(f, v, d) ==
    CASE f.kind = "List" ->
            /\ IsList(d) /\ Len(d.list) = Len(v.list)
            /\ \A i \in 1..Len(v.list) :
                 d.list[i] = AvroDump(f.field_type, v.list[i])
      [] f.kind = "Map" ->
            /\ IsDict(d) /\ DOMAIN d.dict = DOMAIN v.dict
            /\ \A k \in DOMAIN v.dict :
                 d.dict[k] = AvroDump(f.value_type, v.dict[k])
      [] f.kind = "SubRecord" ->
            /\ IsDict(d) /\ DOMAIN d.dict = FieldNames(f.schema)
            /\ \A name \in FieldNames(f.schema) :
                 d.dict[name] = AvroDump(FieldNamed(f.schema, name), v.attrs[name])
      [] OTHER -> d = Dump(f, v)

DumpShape ==
    dumped # NotYet =>
        /\ value = None => dumped = None
        /\ (value # None /\ field.nullable) =>
              /\ IsDict(dumped)
              /\ DOMAIN dumped.dict = {ClaimedTag(field)}
              /\ BareEncoded(field, value, dumped.dict[ClaimedTag(field)])
        /\ (value # None /\ ~field.nullable) => BareEncoded(field, value, dumped)

\* a nullable List of nullable Integer(8): one wrapping for the list, and
\* each element wrapped as a long of its own
DumpShapeWitness ==
    /\ dumped # NotYet
    /\ field = List(Integer(8, TRUE, NO_DEFAULT), TRUE, NO_DEFAULT)
    /\ value = PyList(<<Num(7), None>>)
    /\ dumped = Dict("array" :> PyList(<<Dict("long" :> Num(7)), None>>))

(***************************************************************************)
(* Loading a mapping: from_json_compatible(Rec, dct) on mappings with any  *)
(* subset of Rec's fields and of two keys Rec does not have, the values    *)
(* well formed or not, the keys visited in every order.                    *)
(***************************************************************************)
LoadKeys == {"foo", "opt", "sub", "unknown_field", "zzz"}

InnerJson == Dict([a |-> None, b |-> Str("x")])

LoadValues(key) ==
    CASE key = "foo" -> {Str("x")}
      [] key = "opt" -> {None, Dict("long" :> Num(7)), Dict("int" :> Num(7)), Num(7)}
      [] key = "sub" -> {None, Dict("com.Inner" :> InnerJson),
                         Dict("com.Inner" :> Dict([bogus |-> Num(1)])),
                         Dict("Inner" :> InnerJson)}
      [] key = "unknown_field" -> {Num(1)}
      [] key = "zzz" -> {None}

LoadInputs ==
    UNION { { Dict(d) : d \in { m \in [K -> UNION { LoadValues(k) : k \in K }] :
                                  \A k \in K : m[k] \in LoadValues(k) } } :
            K \in SUBSET LoadKeys }

LoadOrders ==
    { o \o <<"a", "b", "bogus">> :
        o \in { p \in [1..Cardinality(LoadKeys) -> LoadKeys] :
                  \A i, j \in 1..Cardinality(LoadKeys) : p[i] = p[j] => i = j } }

LoadInit ==
    /\ schemas = CodecSchemas
    /\ dct \in LoadInputs
    /\ key_order \in LoadOrders
    /\ load_result = NotYet
    /\ GenIdle /\ CodecIdle /\ WriterIdle

\* from_json_compatible(Rec, dct)
FromJsonCompatibleCall ==
    /\ load_result = NotYet
    /\ load_result' = FromJsonCompatible("Rec", dct)
    /\ UNCHANGED <<dct, key_order, genVars, codecVars, writerVars>>

LoadNext == FromJsonCompatibleCall

LoadSpec == LoadInit /\ [][LoadNext]_vars

UnknownKeys == DOMAIN dct.dict \ FieldNames("Rec")
Visited == Keys(dct.dict)
FirstUnknown == CHOOSE i \in 1..Len(Visited) :
                    /\ Visited[i] \in UnknownKeys
                    /\ \A j \in 1..(i - 1) : Visited[j] \notin UnknownKeys
LoadedAt(i) == AvroLoad(FieldNamed("Rec", Visited[i]), dct.dict[Visited[i]])

(***************************************************************************)
(* C5 as stated: a mapping with a key that is no field of the schema fails *)
(* with a ParseError naming the schema and the offending key, whatever the *)
(* other keys hold and in whatever order the keys are visited.             *)
(***************************************************************************)
UnknownKeyAlwaysParseError ==
    (load_result # NotYet /\ UnknownKeys # {}) =>
        /\ IsExc(load_result)
        /\ load_result.exc = "ParseError"
        /\ load_result.message[1] = "RecClass"
        /\ load_result.message[2] \in UnknownKeys

(***************************************************************************)
(* C5 amended: such a mapping never loads (no instance of the schema is    *)
(* built); the failure is the ParseError naming the schema and the first   *)
(* unknown key visited when every key visited before it loads, and         *)
(* otherwise the error of the first visited key whose value does not load. *)
(***************************************************************************)
UnknownKeyFailsLoad ==
    (load_result # NotYet /\ UnknownKeys # {}) =>
        /\ IsExc(load_result)
        /\ (\A j \in 1..(FirstUnknown - 1) : ~IsExc(LoadedAt(j)))
              => load_result = Exc("ParseError", <<"RecClass", Visited[FirstUnknown]>>)
        /\ \A j \in 1..(FirstUnknown - 1) :
              (IsExc(LoadedAt(j)) /\ \A k \in 1..(j - 1) : ~IsExc(LoadedAt(k)))
                  => load_result = LoadedAt(j)

\* the unknown key is visited after two fields that loaded
UnknownKeyFailsLoadWitness ==
    /\ load_result = Exc("ParseError", <<"RecClass", "unknown_field">>)
    /\ DOMAIN dct.dict = {"opt", "sub", "unknown_field"}
    /\ Visited[3] = "unknown_field"
    /\ dct.dict["opt"] = Dict("long" :> Num(7))
    /\ dct.dict["sub"] = Dict("com.Inner" :> InnerJson)

(***************************************************************************)
(* The batch writer: mr_writer(job, outputs, output_stream, stderr, dumps) *)
(***************************************************************************)
\* the most records handed to mr_writer
MaxRecords == 4

\* what dumps does with a record: returns a line, raises core.ParseError,
\* or raises something else
DumpsOutcomes == {"line", "ParseError", "ValueError"}

WriterInit ==
    /\ outputs \in BoundedSeq(DumpsOutcomes, MaxRecords)
    /\ pos = 0 /\ output_stream = <<>> /\ stderr = <<>> /\ writer = "running"
    /\ schemas = CodecSchemas /\ key_order = <<>>
    /\ GenIdle /\ CodecIdle /\ dct = None /\ load_result = None

\* the loop takes the next record, dumps returns, the line is printed
PrintLine ==
    /\ writer = "running" /\ pos < Len(outputs)
    /\ outputs[pos + 1] = "line"
    /\ pos' = pos + 1
    /\ output_stream' = Append(output_stream, pos + 1)
    /\ UNCHANGED <<outputs, stderr, writer, genVars, codecVars, loadVars>>

\* a mutant of LogAndRaise: the error is logged and the loop goes on
LogAndContinue ==
    /\ writer = "running" /\ pos < Len(outputs)
    /\ outputs[pos + 1] = "ParseError"
    /\ pos' = pos + 1
    /\ stderr' = Append(stderr, pos + 1)
    /\ UNCHANGED <<outputs, output_stream, writer, genVars, codecVars, loadVars>>

\* dumps raises core.ParseError: print >> stderr, e; raise
LogAndRaise ==
    /\ writer = "running" /\ pos < Len(outputs)
    /\ outputs[pos + 1] = "ParseError"
    /\ pos' = pos + 1
    /\ stderr' = Append(stderr, pos + 1)
    /\ writer' = "ParseError"
    /\ UNCHANGED <<outputs, output_stream, genVars, codecVars, loadVars>>

\* dumps raises another exception: no except clause takes it
Propagate ==
    /\ writer = "running" /\ pos < Len(outputs)
    /\ outputs[pos + 1] = "ValueError"
    /\ pos' = pos + 1
    /\ writer' = "ValueError"
    /\ UNCHANGED <<outputs, output_stream, stderr, genVars, codecVars, loadVars>>

\* outputs is exhausted: mr_writer returns
WriterReturn ==
    /\ writer = "running" /\ pos = Len(outputs)
    /\ writer' = "returned"
    /\ UNCHANGED <<outputs, pos, output_stream, stderr, genVars, codecVars, loadVars>>

WriterNext == PrintLine \/ LogAndRaise \/ Propagate \/ WriterReturn

WriterSpec == WriterInit /\ [][WriterNext]_vars

(***************************************************************************)
(* C6: mr_writer takes the records in input order; once the encoding of    *)
(* record i has raised a ParseError, the output holds one line for each of *)
(* the records before i and nothing else, the error sink holds the error   *)
(* of record i once, the error has left mr_writer, and no later record is  *)
(* taken.                                                                  *)
(***************************************************************************)
AbortsOnParseError ==
    /\ output_stream = [k \in 1..Len(output_stream) |-> k]
    /\ \A i \in 1..pos :
          outputs[i] = "ParseError" =>
              /\ pos = i
              /\ writer = "ParseError"
              /\ output_stream = [k \in 1..(i - 1) |-> k]
              /\ stderr = <<i>>
    /\ writer = "ParseError" => outputs[pos] = "ParseError"

\* the third record fails after two lines, with a record still to come
AbortsOnParseErrorWitness ==
    /\ writer = "ParseError" /\ pos = 3 /\ Len(outputs) = 4
    /\ outputs[4] = "line"
    /\ output_stream = <<1, 2>> /\ stderr = <<3>>

====
